---- MODULE Spec2Model ----
(***************************************************************************)
(* Model of the freedraw drawing widget (src/components/drawing-app.tsx):   *)
(* the raster surface (canvas bitmap + 2D context state), the React state   *)
(* of DrawingApp and its event handlers.                                    *)
(*                                                                          *)
(* Conventions                                                              *)
(*  - A React event handler runs with the values of the last render; the    *)
(*    state update it schedules is committed (re-render + effects whose     *)
(*    dependencies changed) before the next event is delivered, so one      *)
(*    action is: handler body, then commit.                                 *)
(*  - The bitmap is a function from pixel coordinates to pixel values.      *)
(*    Colours are opaque CSS colours; coverage of a pixel by a shape is     *)
(*    decided at the pixel centre (no anti-aliasing).                       *)
(*  - Pointer positions are integer CSS pixels relative to the canvas box.  *)
(***************************************************************************)
EXTENDS Integers, Sequences, FiniteSets, TLC

VARIABLES
    mounted,          \* have the mount effects of DrawingApp run
    client,           \* canvas.clientWidth / clientHeight (container size)
    canvas,           \* canvasRef.current: [w, h, px]
    ctx,              \* ctxRef.current: NoCtx or the 2D context state
    bgColor,          \* useState bgColor
    strokeColor,      \* useState strokeColor
    tool,             \* useState tool
    isDrawing,        \* useState isDrawing
    strokeWidth,      \* useState strokeWidth
    refs,             \* currentToolRef, currentStrokeColorRef, ...
    canvasStateRef,   \* canvasStateRef.current: NoImageData or [w, h, px]
    resizePending,    \* a ResizeObserver notification is queued
    loading,          \* images created by applyImageToCanvas, not yet loaded
    toast,            \* the most recent toast notification
    resizeBase,       \* history: surface before the current run of resizes
    nEvents,          \* history: number of input events counted by MaxEvents
    cameraOpen,       \* UserInterface state: the capture dialog is open
    dialogAlive,      \* the CameraDialog component is mounted
    stream,           \* CameraDialog state: the MediaStream held, or NoStream
    permissionStatus, \* CameraDialog state
    cameraDirection,  \* CameraDialog state
    effectStream,     \* `stream` as closed over by the current [open] effect
    tracks,           \* device: state of the tracks of every stream
    queries,          \* permissions.query calls in flight
    requests,         \* getUserMedia calls of the dialog in flight, by caller
    capRequests,      \* getUserMedia calls of captureImage in flight
    capTimers,        \* streams of captureImage waiting for the 1 s timer
    alertShown,       \* a blocking alert has been shown
    clipboard,        \* platform: what the system clipboard holds
    isUiHidden,       \* DrawingApp state: the UI was hidden with the toggle
    drawerOpen        \* the settings drawer (small screens) is open

\* the drawing surface and its configuration, without images in flight and
\* notifications
canvasVars == <<mounted, client, canvas, ctx, bgColor, strokeColor, tool,
                isDrawing, strokeWidth, refs, canvasStateRef, resizePending,
                resizeBase, nEvents>>

\* the capture dialog, the captureImage flow and the platform they and the
\* copy operation act on (camera, alert, clipboard)
camVars == <<cameraOpen, dialogAlive, stream, permissionStatus,
             cameraDirection, effectStream, tracks, queries, requests,
             capRequests, capTimers, alertShown, clipboard>>

\* the visibility of the controls
uiVars == <<isUiHidden, drawerOpen>>

vars == <<canvasVars, loading, toast, camVars, uiVars>>

----------------------------------------------------------------------------
(* Bounds of the model *)

MaxW == 2

MaxH == 3

MaxImg == 1

MaxPath == 3

\* user and container events in one behaviour (size changes, setter calls,
\* pointer-downs, drawing pointer-moves, clears, applyImageToCanvas calls)
MaxEvents == 3

\* camera streams opened or requested in one behaviour
MaxStreams == 2

\* permissions.query calls in flight at one time
MaxQueries == 1

----------------------------------------------------------------------------
(* Program constants *)

DEFAULT_LIGHT_MODE_BG_COLOR == "#ffffff"

DEFAULT_LIGHT_MODE_STROKE_COLOR == "#000000"

DEFAULT_STROKE_WIDTH == 5

DEFAULT_TOOL == "pencil"

THIN_STROKE_WIDTH == 2

Tools == {"pencil", "eraser"}

\* colours offered to the setters (opaque, valid CSS colours)
Colors == {DEFAULT_LIGHT_MODE_STROKE_COLOR, DEFAULT_LIGHT_MODE_BG_COLOR}

\* stroke widths offered by the configuration panel
Widths == {THIN_STROKE_WIDTH, DEFAULT_STROKE_WIDTH}

\* container sizes (positive: the canvas fills the viewport); the model
\* takes the sizes that are one pixel wide or one pixel high
Sizes == {s \in [w : 1..MaxW, h : 1..MaxH] : s.w = 1 \/ s.h = 1}

\* decoded images handed to applyImageToCanvas (positive dimensions)
Images == [w : 1..MaxImg, h : 1..MaxImg]

\* container sizes of the worked scenarios: an 800x600 container that grows
\* to 1000x600, in units of 100 pixels, and a 16:9 container
ScenarioSizes ==
    {[w |-> 8, h |-> 6], [w |-> 10, h |-> 6], [w |-> 16, h |-> 9]}

\* the end points (100,100) and (200,100) of the scenario's stroke, in the
\* same units
ScenarioPositions == {<<1, 1>>, <<2, 1>>}

\* a decoded 4:3 image
ScenarioImages == {[w |-> 4, h |-> 3]}

----------------------------------------------------------------------------
(* The host canvas: bitmap and 2D context *)

NoCanvas == [null |-> TRUE]

NoCtx == [null |-> TRUE]

NoImageData == [null |-> TRUE]

NoBase == [null |-> TRUE]

\* rgba(0,0,0,0), the value of a pixel of a freshly allocated bitmap
Transparent == "transparent"

\* the value of a pixel painted from a (opaque) source image
ImagePixel == "image"

Pixels(w, h) == (0..(w - 1)) \X (0..(h - 1))

\* a freshly (re)allocated bitmap: setting canvas.width / canvas.height
Bitmap(w, h) == [w |-> w, h |-> h, px |-> [p \in Pixels(w, h) |-> Transparent]]

\* the default state of a 2D context (after creation or after a bitmap reset)
DefaultContext ==
    [strokeStyle |-> "#000000", fillStyle |-> "#000000", lineWidth |-> 1,
     lineCap |-> "butt", lineJoin |-> "miter", path |-> <<>>, closed |-> FALSE]

\* ctx.fillRect(x, y, w, h) with fill style c
FillRect(cv, x, y, w, h, c) ==
    [cv EXCEPT !.px = [p \in DOMAIN cv.px |->
        IF x <= p[1] /\ p[1] < x + w /\ y <= p[2] /\ p[2] < y + h
        THEN c ELSE cv.px[p]]]

\* ctx.clearRect(x, y, w, h)
ClearRect(cv, x, y, w, h) == FillRect(cv, x, y, w, h, Transparent)

\* ctx.getImageData(0, 0, w, h) on a bitmap of that size
GetImageData(cv) == [w |-> cv.w, h |-> cv.h, px |-> cv.px]

\* conversion of a non-negative half-integer n/2 to the WebIDL long
\* that putImageData takes: the fractional part is dropped
ToLong(twice) == twice \div 2

\* variant: the pixels are copied to the origin of the bitmap
PutImageData_origin(cv, data, dx, dy) ==
    [cv EXCEPT !.px = [p \in DOMAIN cv.px |->
        IF p \in DOMAIN data.px THEN data.px[p] ELSE cv.px[p]]]

\* ctx.putImageData(data, dx, dy): copies the pixels, clipped to the bitmap
PutImageData(cv, data, dx, dy) ==
    [cv EXCEPT !.px = [p \in DOMAIN cv.px |->
        IF <<p[1] - dx, p[2] - dy>> \in DOMAIN data.px
        THEN data.px[<<p[1] - dx, p[2] - dy>>] ELSE cv.px[p]]]

Max(a, b) == IF a >= b THEN a ELSE b

----------------------------------------------------------------------------
(* Stroke rasterisation: the pixels whose centre lies in the stroked shape.  *)
(* Lengths are doubled so that pixel centres are integers.                  *)

\* 4 * squared distance from the centre of pixel p to point q
Dist4(p, q) ==
    (2 * p[1] + 1 - 2 * q[1]) * (2 * p[1] + 1 - 2 * q[1])
  + (2 * p[2] + 1 - 2 * q[2]) * (2 * p[2] + 1 - 2 * q[2])

\* pixel centre within lw/2 of point q (round cap or round join at q)
InDisc(p, q, lw) == Dist4(p, q) <= lw * lw

\* pixel centre inside the rectangle of width lw around segment a-b
InSegment(p, a, b, lw) ==
    LET ex == b[1] - a[1]
        ey == b[2] - a[2]
        vx == 2 * p[1] + 1 - 2 * a[1]
        vy == 2 * p[2] + 1 - 2 * a[2]
        dot == vx * ex + vy * ey
        cross == vx * ey - vy * ex
        len2 == ex * ex + ey * ey
    IN  /\ len2 > 0
        /\ 0 <= dot /\ dot <= 2 * len2
        /\ cross * cross <= lw * lw * len2

\* the pixels a stroke can reach: every bitmap with a margin of one pixel
CoverArea ==
    UNION {(-1..(s.w + 1)) \X (-1..(s.h + 1)) : s \in Sizes \cup ScenarioSizes}

\* the pixels painted by ctx.stroke() for the current path of context c
StrokeCover(c) ==
    LET n == Len(c.path)
    IN  IF n < 2 THEN {}
        ELSE {p \in CoverArea :
                \/ \E k \in 1..(n - 1) :
                      InSegment(p, c.path[k], c.path[k + 1], c.lineWidth)
                \/ /\ c.lineCap = "round"
                   /\ \/ InDisc(p, c.path[1], c.lineWidth)
                      \/ InDisc(p, c.path[n], c.lineWidth)
                \/ /\ c.lineJoin = "round"
                   /\ \E k \in 2..(n - 1) : InDisc(p, c.path[k], c.lineWidth)}

\* ctx.stroke(): paints the whole current path with the stroke style
Stroke(cv, c) ==
    [cv EXCEPT !.px = [p \in DOMAIN cv.px |->
        IF p \in StrokeCover(c) THEN c.strokeStyle ELSE cv.px[p]]]

----------------------------------------------------------------------------
(* React commit: effects of DrawingApp that depend on the drawing state *)

RefsOf(t, sc, sw, bg) ==
    [tool |-> t, strokeColor |-> sc, strokeWidth |-> sw, bgColor |-> bg]

\* variant: the refs keep the values of the first render
SyncRefs_never(t, sc, sw, bg) == refs

\* effect "Keep refs in sync with state values"
SyncRefs(t, sc, sw, bg) ==
    IF <<t, sc, sw, bg>> # <<tool, strokeColor, strokeWidth, bgColor>>
    THEN RefsOf(t, sc, sw, bg) ELSE refs

\* variant: a new width does not reach the context, which keeps the line
\* width it had before the handler
ContextSettings_keepWidth(c, t, sc, sw, bg) ==
    IF c = NoCtx \/ <<t, sc, sw, bg>> = <<tool, strokeColor, strokeWidth, bgColor>>
    THEN c
    ELSE [c EXCEPT !.strokeStyle = IF t = "eraser" THEN bg ELSE sc,
                   !.lineWidth = ctx.lineWidth]

\* effect "Update context settings when tool, color, or width changes",
\* applied to the context c left by the handler
ContextSettings(c, t, sc, sw, bg) ==
    IF c = NoCtx \/ <<t, sc, sw, bg>> = <<tool, strokeColor, strokeWidth, bgColor>>
    THEN c
    ELSE [c EXCEPT !.strokeStyle = IF t = "eraser" THEN bg ELSE sc,
                   !.lineWidth = sw]

\* commit of the new state values after a handler that left context c
Commit(c, t, sc, sw, bg) ==
    /\ tool' = t
    /\ strokeColor' = sc
    /\ strokeWidth' = sw
    /\ bgColor' = bg
    /\ refs' = SyncRefs(t, sc, sw, bg)
    /\ ctx' = ContextSettings(c, t, sc, sw, bg)

----------------------------------------------------------------------------
(* The device camera *)

\* useState<MediaStream | null>(null)
NoStream == 0

\* the streams getUserMedia can hand out, in this order
StreamIds == 1..MaxStreams

\* a video element without a decoded frame (videoWidth = videoHeight = 0)
NoFrame == [null |-> TRUE]

CameraDirections == {"environment", "user"}

\* the states navigator.permissions.query can report
PermissionStates == {"granted", "denied", "prompt"}

\* stream.getTracks().forEach((track) => track.stop())
StopTracks(tr, s) == IF s = NoStream THEN tr ELSE [tr EXCEPT ![s] = "ended"]

\* the stream a resolving getUserMedia call returns
NewStream ==
    CHOOSE i \in StreamIds :
        tracks[i] = "none" /\ \A j \in 1..(i - 1) : tracks[j] # "none"

\* another getUserMedia call fits into MaxStreams
CanRequest ==
    Cardinality({i \in StreamIds : tracks[i] # "none"})
        + requests.permission + requests.effect + capRequests < MaxStreams

----------------------------------------------------------------------------
(* Initial state: DrawingApp rendered (light theme), refs not yet attached,  *)
(* effects not yet run                                                      *)

Init ==
    /\ mounted = FALSE
    /\ client \in Sizes
    /\ canvas = NoCanvas
    /\ ctx = NoCtx
    /\ bgColor = DEFAULT_LIGHT_MODE_BG_COLOR
    /\ strokeColor = DEFAULT_LIGHT_MODE_STROKE_COLOR
    /\ tool = DEFAULT_TOOL
    /\ isDrawing = FALSE
    /\ strokeWidth = DEFAULT_STROKE_WIDTH
    /\ refs = RefsOf(DEFAULT_TOOL, DEFAULT_LIGHT_MODE_STROKE_COLOR,
                     DEFAULT_STROKE_WIDTH, DEFAULT_LIGHT_MODE_BG_COLOR)
    /\ canvasStateRef = NoImageData
    /\ resizePending = FALSE
    /\ loading = {}
    /\ toast = "none"
    /\ resizeBase = NoBase
    /\ nEvents = 0
    /\ cameraOpen = FALSE
    /\ dialogAlive = TRUE
    /\ stream = NoStream
    /\ permissionStatus = "unknown"
    /\ cameraDirection = "environment"
    /\ effectStream = NoStream
    /\ tracks = [i \in StreamIds |-> "none"]
    /\ queries = 0
    /\ requests = [permission |-> 0, effect |-> 0]
    /\ capRequests = 0
    /\ capTimers = {}
    /\ alertShown = FALSE
    /\ clipboard = "empty"
    /\ isUiHidden = FALSE
    /\ drawerOpen = FALSE

----------------------------------------------------------------------------
(* Mount effects *)

\* variant: the mount effect leaves the line cap and line join at the
\* context's defaults
MountContext_defaultCaps ==
    [DefaultContext EXCEPT
        !.strokeStyle = IF refs.tool = "eraser" THEN refs.bgColor
                        ELSE refs.strokeColor,
        !.lineWidth = refs.strokeWidth,
        !.fillStyle = refs.bgColor]

\* the context configured by the mount effect
MountContext ==
    [DefaultContext EXCEPT
        !.strokeStyle = IF refs.tool = "eraser" THEN refs.bgColor
                        ELSE refs.strokeColor,
        !.lineWidth = refs.strokeWidth,
        !.lineCap = "round",
        !.lineJoin = "round",
        !.fillStyle = refs.bgColor]

\* "Initialize canvas on component mount" followed by the first run of the
\* context-settings effect and of the effect that attaches the ResizeObserver
\* (which always delivers a first notification).  ok: getContext("2d")
\* returned a context.
Mount(ok) ==
    /\ ~mounted
    /\ mounted' = TRUE
    /\ IF ok
       THEN /\ ctx' = [MountContext EXCEPT
                          !.strokeStyle = IF tool = "eraser" THEN bgColor
                                          ELSE strokeColor,
                          !.lineWidth = strokeWidth]
            /\ canvas' = FillRect(Bitmap(client.w, client.h), 0, 0,
                                  client.w, client.h, MountContext.fillStyle)
       ELSE /\ ctx' = NoCtx
            /\ canvas' = Bitmap(client.w, client.h)
    /\ resizePending' = TRUE
    /\ UNCHANGED <<client, bgColor, strokeColor, tool, isDrawing,
                   strokeWidth, refs, canvasStateRef, loading, toast,
                   resizeBase, nEvents>>
    /\ UNCHANGED <<camVars, uiVars>>

----------------------------------------------------------------------------
(* Container size changes and the resize handler *)

\* the container is laid out at a new size; the ResizeObserver queues a
\* notification for the observed canvas
ContainerResize(s) ==
    /\ mounted
    /\ nEvents < MaxEvents
    /\ s # client
    /\ client' = s
    /\ resizePending' = TRUE
    /\ nEvents' = nEvents + 1
    /\ UNCHANGED <<mounted, canvas, ctx, bgColor, strokeColor, tool,
                   isDrawing, strokeWidth, refs, canvasStateRef, loading,
                   toast, resizeBase>>
    /\ UNCHANGED <<camVars, uiVars>>

\* variant: the line width is not restored after the bitmap reset
ResizeContext_noWidth ==
    [DefaultContext EXCEPT
        !.lineCap = "round",
        !.lineJoin = "round",
        !.strokeStyle = IF refs.tool = "eraser" THEN refs.bgColor
                        ELSE refs.strokeColor,
        !.fillStyle = refs.bgColor]

\* context properties restored by handleResize after the bitmap reset
ResizeContext ==
    [DefaultContext EXCEPT
        !.lineCap = "round",
        !.lineJoin = "round",
        !.strokeStyle = IF refs.tool = "eraser" THEN refs.bgColor
                        ELSE refs.strokeColor,
        !.lineWidth = refs.strokeWidth,
        !.fillStyle = refs.bgColor]

\* variant: the difference is not halved
ResizeOffset_noHalf(new, old) == Max(0, new - old)

\* Math.max(0, (new - old) / 2) as received by putImageData
ResizeOffset(new, old) == ToLong(Max(0, new - old))

\* variant: the bitmap keeps its dimensions
ResizedBitmap_keepSize(cv, s) ==
    PutImageData(
        FillRect(Bitmap(cv.w, cv.h), 0, 0, cv.w, cv.h, refs.bgColor),
        GetImageData(cv), 0, 0)

\* the bitmap produced by handleResize for the container size s
ResizedBitmap(cv, s) ==
    PutImageData(
        FillRect(Bitmap(s.w, s.h), 0, 0, s.w, s.h, ResizeContext.fillStyle),
        GetImageData(cv),
        ResizeOffset(s.w, cv.w),
        ResizeOffset(s.h, cv.h))

Min(a, b) == IF a <= b THEN a ELSE b

\* history: the surface at the start of the current run of resizes, the
\* smallest size seen since, and whether every size had the parity of the
\* first one (so that centring is a whole number of pixels)
NextBase(cv, s) ==
    IF resizeBase = NoBase
    THEN [w |-> cv.w, h |-> cv.h, px |-> cv.px,
          minW |-> Min(cv.w, s.w), minH |-> Min(cv.h, s.h),
          even |-> (s.w - cv.w) % 2 = 0 /\ (s.h - cv.h) % 2 = 0]
    ELSE [resizeBase EXCEPT
            !.minW = Min(@, s.w), !.minH = Min(@, s.h),
            !.even = @ /\ (s.w - resizeBase.w) % 2 = 0
                       /\ (s.h - resizeBase.h) % 2 = 0]

\* variant: the handler also ends the stroke session
handleResize_endsSession ==
    /\ mounted
    /\ resizePending
    /\ resizePending' = FALSE
    /\ isDrawing' = FALSE
    /\ IF ctx = NoCtx
       THEN UNCHANGED <<canvas, ctx, canvasStateRef, resizeBase>>
       ELSE /\ canvasStateRef' = GetImageData(canvas)
            /\ canvas' = ResizedBitmap(canvas, client)
            /\ ctx' = ResizeContext
            /\ resizeBase' = NextBase(canvas, client)
    /\ UNCHANGED <<mounted, client, bgColor, strokeColor, tool,
                   strokeWidth, refs, loading, toast, nEvents>>
    /\ UNCHANGED <<camVars, uiVars>>

\* handleResize, invoked by the ResizeObserver
handleResize ==
    /\ mounted
    /\ resizePending
    /\ resizePending' = FALSE
    /\ IF ctx = NoCtx
       THEN UNCHANGED <<canvas, ctx, canvasStateRef, resizeBase>>
       ELSE /\ canvasStateRef' = GetImageData(canvas)
            /\ canvas' = ResizedBitmap(canvas, client)
            /\ ctx' = ResizeContext
            /\ resizeBase' = NextBase(canvas, client)
    /\ UNCHANGED <<mounted, client, bgColor, strokeColor, tool, isDrawing,
                   strokeWidth, refs, loading, toast, nEvents>>
    /\ UNCHANGED <<camVars, uiVars>>

----------------------------------------------------------------------------
(* Configuration setters *)

\* stroke style written by updateCanvasBg
BgStrokeStyle(color) == IF tool = "eraser" THEN color ELSE strokeColor

\* variant: the fill uses the colour of the last render
BgFillStyle_stale(color) == bgColor

\* fill style written by updateCanvasBg
BgFillStyle(color) == color

updateCanvasBg(color) ==
    /\ mounted
    /\ nEvents < MaxEvents
    /\ nEvents' = nEvents + 1
    /\ IF ctx = NoCtx
       THEN /\ Commit(ctx, tool, strokeColor, strokeWidth, color)
            /\ UNCHANGED <<canvas, resizeBase>>
       ELSE /\ Commit([ctx EXCEPT !.strokeStyle = BgStrokeStyle(color),
                                  !.fillStyle = BgFillStyle(color)],
                      tool, strokeColor, strokeWidth, color)
            /\ canvas' = FillRect(canvas, 0, 0, canvas.w, canvas.h,
                                  BgFillStyle(color))
            /\ resizeBase' = NoBase
    /\ UNCHANGED <<mounted, client, isDrawing, canvasStateRef, resizePending,
                   loading, toast>>
    /\ UNCHANGED <<camVars, uiVars>>

\* variant: the tool is not consulted
StrokeColorStrokeStyle_ignoreEraser(color) == color

\* stroke style written by updateCanvasStrokeColor
StrokeColorStrokeStyle(color) == IF tool = "eraser" THEN bgColor ELSE color

updateCanvasStrokeColor(color) ==
    /\ mounted
    /\ nEvents < MaxEvents
    /\ nEvents' = nEvents + 1
    /\ Commit(IF ctx = NoCtx THEN ctx
              ELSE [ctx EXCEPT !.strokeStyle = StrokeColorStrokeStyle(color)],
              tool, color, strokeWidth, bgColor)
    /\ UNCHANGED <<mounted, client, canvas, isDrawing, canvasStateRef,
                   resizePending, loading, toast, resizeBase>>
    /\ UNCHANGED <<camVars, uiVars>>

updateCanvasStrokeWidth(width) ==
    /\ mounted
    /\ nEvents < MaxEvents
    /\ nEvents' = nEvents + 1
    /\ Commit(IF ctx = NoCtx THEN ctx ELSE [ctx EXCEPT !.lineWidth = width],
              tool, strokeColor, width, bgColor)
    /\ UNCHANGED <<mounted, client, canvas, isDrawing, canvasStateRef,
                   resizePending, loading, toast, resizeBase>>
    /\ UNCHANGED <<camVars, uiVars>>

\* variant: the new tool is not consulted
ToolStrokeStyle_ignoreEraser(t) == strokeColor

\* stroke style written by updateCanvasTool
ToolStrokeStyle(t) == IF t = "eraser" THEN bgColor ELSE strokeColor

updateCanvasTool(t) ==
    /\ mounted
    /\ nEvents < MaxEvents
    /\ nEvents' = nEvents + 1
    /\ Commit(IF ctx = NoCtx THEN ctx
              ELSE [ctx EXCEPT !.strokeStyle = ToolStrokeStyle(t)],
              t, strokeColor, strokeWidth, bgColor)
    /\ UNCHANGED <<mounted, client, canvas, isDrawing, canvasStateRef,
                   resizePending, loading, toast, resizeBase>>
    /\ UNCHANGED <<camVars, uiVars>>

----------------------------------------------------------------------------
(* Pointer handlers *)

\* positions a pointer event on the canvas box can report
Positions ==
    {p \in (0..client.w) \X (0..client.h) :
        p[2] = Min(p[1], 1) \/ p[1] = Min(p[2], 1)}

\* variant: the lineTo is missing
StartPath_noLineTo(c, p) == [c EXCEPT !.path = <<p>>, !.closed = FALSE]

\* beginPath(); moveTo(p); lineTo(p)
StartPath(c, p) == [c EXCEPT !.path = <<p, p>>, !.closed = FALSE]

startDrawing(p) ==
    /\ mounted
    /\ nEvents < MaxEvents
    /\ nEvents' = nEvents + 1
    /\ IF ctx = NoCtx
       THEN UNCHANGED <<canvas, ctx, isDrawing, resizeBase>>
       ELSE /\ ctx' = StartPath(ctx, p)
            /\ canvas' = Stroke(canvas, StartPath(ctx, p))
            /\ isDrawing' = TRUE
            /\ resizeBase' = NoBase
    /\ UNCHANGED <<mounted, client, bgColor, strokeColor, tool, strokeWidth,
                   refs, canvasStateRef, resizePending, loading, toast>>
    /\ UNCHANGED <<camVars, uiVars>>

\* lineTo(p): on an empty path it only starts a subpath at p
LineTo(c, p) == [c EXCEPT !.path = Append(@, p)]

draw(p) ==
    /\ mounted
    /\ IF ~isDrawing \/ ctx = NoCtx
       THEN UNCHANGED <<canvas, ctx, resizeBase, nEvents>>
       ELSE /\ Len(ctx.path) < MaxPath
            /\ nEvents < MaxEvents
            /\ nEvents' = nEvents + 1
            /\ ctx' = LineTo(ctx, p)
            /\ canvas' = Stroke(canvas, LineTo(ctx, p))
            /\ resizeBase' = NoBase
    /\ UNCHANGED <<mounted, client, bgColor, strokeColor, tool, isDrawing,
                   strokeWidth, refs, canvasStateRef, resizePending, loading,
                   toast>>
    /\ UNCHANGED <<camVars, uiVars>>

\* closePath(): closes the last subpath if there is one
ClosePath(c) == [c EXCEPT !.closed = @ \/ Len(c.path) > 0]

\* variant: the drawing flag is left as it is
StoppedFlag_kept == isDrawing

\* setIsDrawing(false)
StoppedFlag == FALSE

\* bound to onMouseUp, onMouseOut and onTouchEnd of the canvas
stopDrawing ==
    /\ mounted
    /\ IF ctx = NoCtx
       THEN UNCHANGED <<ctx, isDrawing>>
       ELSE /\ ctx' = ClosePath(ctx)
            /\ isDrawing' = StoppedFlag
    /\ UNCHANGED <<mounted, client, canvas, bgColor, strokeColor, tool,
                   strokeWidth, refs, canvasStateRef, resizePending, loading,
                   toast, resizeBase, nEvents>>
    /\ UNCHANGED <<camVars, uiVars>>

----------------------------------------------------------------------------
(* Pointer events of the canvas element *)

\* positions in the viewport that a mouse pointer or a touch point reports
ViewportPoints == [clientX : 0..1, clientY : 0..1]

\* React.MouseEvent: clientX, clientY
MouseEvents == ViewportPoints

\* React.TouchEvent of a touchstart or touchmove: one or two touch points
TouchEvents ==
    {[touches |-> <<a>>] : a \in ViewportPoints}
        \cup {[touches |-> <<a, b>>] : a, b \in ViewportPoints}

\* canvas.getBoundingClientRect(): the origin of the canvas box, at the
\* origin of the viewport or displaced from it
Rects == {[left |-> 0, top |-> 0], [left |-> 1, top |-> 1]}

\* variant: the last touch point is taken
getCoordinates_lastTouch(e, rect) ==
    IF canvas = NoCanvas THEN <<0, 0>>
    ELSE IF "touches" \in DOMAIN e
         THEN <<e.touches[Len(e.touches)].clientX - rect.left,
                e.touches[Len(e.touches)].clientY - rect.top>>
         ELSE <<e.clientX - rect.left, e.clientY - rect.top>>

\* getCoordinates(e), rect being the bounding box of the canvas at the time
getCoordinates(e, rect) ==
    IF canvas = NoCanvas THEN <<0, 0>>
    ELSE IF "touches" \in DOMAIN e
         THEN <<e.touches[1].clientX - rect.left,
                e.touches[1].clientY - rect.top>>
         ELSE <<e.clientX - rect.left, e.clientY - rect.top>>

\* onMouseDown={startDrawing}
onMouseDown(e, rect) == startDrawing(getCoordinates(e, rect))

\* onTouchStart={startDrawing}
onTouchStart(e, rect) == startDrawing(getCoordinates(e, rect))

\* onMouseMove={draw}
onMouseMove(e, rect) == draw(getCoordinates(e, rect))

\* onTouchMove={draw}
onTouchMove(e, rect) == draw(getCoordinates(e, rect))

----------------------------------------------------------------------------
(* Clear and image application *)

\* variant: the fill uses the stroke colour
ClearFillStyle_stroke == strokeColor

\* fill style written by clearCanvas
ClearFillStyle == bgColor

clearCanvas ==
    /\ mounted
    /\ nEvents < MaxEvents
    /\ nEvents' = nEvents + 1
    /\ IF ctx = NoCtx
       THEN UNCHANGED <<canvas, ctx, toast, resizeBase>>
       ELSE /\ ctx' = [ctx EXCEPT !.fillStyle = ClearFillStyle]
            /\ canvas' = FillRect(canvas, 0, 0, canvas.w, canvas.h,
                                  ClearFillStyle)
            /\ toast' = "Canvas cleared."
            /\ resizeBase' = NoBase
    /\ UNCHANGED <<mounted, client, bgColor, strokeColor, tool, isDrawing,
                   strokeWidth, refs, canvasStateRef, resizePending, loading>>
    /\ UNCHANGED <<camVars, uiVars>>

\* variant: the image is created whether or not there is a context
ImagesLoading_noGuard(img) == loading \cup {img}

\* the images in flight after applyImageToCanvas: without a canvas or a
\* context the function returns before it creates the image
ImagesLoading(img) == IF ctx = NoCtx THEN loading ELSE loading \cup {img}

\* applyImageToCanvas up to the assignment of img.onload
applyImageToCanvas(img) ==
    /\ mounted
    /\ nEvents < MaxEvents
    /\ nEvents' = nEvents + 1
    /\ loading' = ImagesLoading(img)
    /\ UNCHANGED <<mounted, client, canvas, ctx, bgColor, strokeColor, tool,
                   isDrawing, strokeWidth, refs, canvasStateRef,
                   resizePending, toast, resizeBase>>
    /\ UNCHANGED <<camVars, uiVars>>

\* variant: the smaller ratio is taken
CoverScale_min(cw, ch, iw, ih) ==
    IF cw * ih <= ch * iw THEN [num |-> cw, den |-> iw]
    ELSE [num |-> ch, den |-> ih]

\* Math.max(cw / iw, ch / ih) as the fraction num / den
CoverScale(cw, ch, iw, ih) ==
    IF cw * ih >= ch * iw THEN [num |-> cw, den |-> iw]
    ELSE [num |-> ch, den |-> ih]

\* variant: the image is aligned with the top edge instead of centred
DestRect_top(cw, ch, iw, ih) ==
    LET s == CoverScale(cw, ch, iw, ih)
    IN  [x |-> cw * s.den - iw * s.num,
         y |-> 0,
         w |-> 2 * iw * s.num,
         h |-> 2 * ih * s.num,
         den |-> s.den]

\* destination rectangle of drawImage, in units of 1 / (2 * den) pixel:
\* x = (cw - iw * scale) / 2, y = (ch - ih * scale) / 2,
\* width iw * scale, height ih * scale
DestRect(cw, ch, iw, ih) ==
    LET s == CoverScale(cw, ch, iw, ih)
    IN  [x |-> cw * s.den - iw * s.num,
         y |-> ch * s.den - ih * s.num,
         w |-> 2 * iw * s.num,
         h |-> 2 * ih * s.num,
         den |-> s.den]

\* ctx.drawImage(img, 0, 0, iw, ih, x, y, w, h) of an opaque image
DrawImage(cv, r) ==
    [cv EXCEPT !.px = [p \in DOMAIN cv.px |->
        IF /\ r.x <= (2 * p[1] + 1) * r.den
           /\ (2 * p[1] + 1) * r.den < r.x + r.w
           /\ r.y <= (2 * p[2] + 1) * r.den
           /\ (2 * p[2] + 1) * r.den < r.y + r.h
        THEN ImagePixel ELSE cv.px[p]]]

\* variant: the rectangle is computed from the dimensions the buffer had
\* before the last resize
ImageLoad_staleSize(img) ==
    /\ img \in loading
    /\ loading' = loading \ {img}
    /\ canvas' = DrawImage(ClearRect(canvas, 0, 0, canvas.w, canvas.h),
                           IF canvasStateRef = NoImageData
                           THEN DestRect(canvas.w, canvas.h, img.w, img.h)
                           ELSE DestRect(canvasStateRef.w, canvasStateRef.h,
                                         img.w, img.h))
    /\ resizeBase' = NoBase
    /\ UNCHANGED <<mounted, client, ctx, bgColor, strokeColor, tool,
                   isDrawing, strokeWidth, refs, canvasStateRef,
                   resizePending, toast, nEvents>>
    /\ UNCHANGED <<camVars, uiVars>>

\* img.onload of an image created by applyImageToCanvas
ImageLoad(img) ==
    /\ img \in loading
    /\ loading' = loading \ {img}
    /\ canvas' = DrawImage(ClearRect(canvas, 0, 0, canvas.w, canvas.h),
                           DestRect(canvas.w, canvas.h, img.w, img.h))
    /\ resizeBase' = NoBase
    /\ UNCHANGED <<mounted, client, ctx, bgColor, strokeColor, tool,
                   isDrawing, strokeWidth, refs, canvasStateRef,
                   resizePending, toast, nEvents>>
    /\ UNCHANGED <<camVars, uiVars>>

----------------------------------------------------------------------------
(* The capture dialog (CameraDialog) *)

\* variant: the effect that runs on close sees the stream of the render in
\* which the dialog was opened
ClosingStream_stale(strm) == effectStream

\* the stream that stopCamera of the [open] effect of a closing render sees
ClosingStream(strm) == strm

\* Commit of a CameraDialog render with open = o, cameraDirection = dir,
\* permissionStatus = st and stream = strm, the device tracks being tr and the
\* dialog's getUserMedia calls in flight req.  When `open` changed: the
\* cleanup of the previous [open] effect (stopCamera with the stream of the
\* render that created it), then the [open] effect (checkCameraPermission,
\* counted by the caller, or stopCamera).  When open, cameraDirection or
\* permissionStatus changed: the start-camera effect.
DialogCommit(o, dir, st, strm, tr, req) ==
    LET openChanged == o # cameraOpen
        starts == /\ openChanged \/ dir # cameraDirection
                                 \/ st # permissionStatus
                  /\ o /\ st = "granted"
        closing == IF openChanged /\ ~o THEN ClosingStream(strm) ELSE NoStream
        cleaned == IF openChanged THEN effectStream ELSE NoStream
        started == IF starts THEN strm ELSE NoStream
    IN  /\ starts => CanRequest
        /\ cameraOpen' = o
        /\ cameraDirection' = dir
        /\ permissionStatus' = st
        /\ tracks' = StopTracks(StopTracks(StopTracks(tr, cleaned), closing),
                                started)
        /\ stream' = IF <<cleaned, closing, started>>
                            # <<NoStream, NoStream, NoStream>>
                     THEN NoStream ELSE strm
        /\ effectStream' = IF openChanged THEN strm ELSE effectStream
        /\ requests' = IF starts THEN [req EXCEPT !.effect = @ + 1] ELSE req

\* the camera button: setCameraOpen(true)
OpenDialog ==
    /\ mounted /\ dialogAlive
    /\ ~cameraOpen
    /\ queries < MaxQueries
    /\ DialogCommit(TRUE, cameraDirection, permissionStatus, stream, tracks,
                    requests)
    /\ queries' = queries + 1
    /\ UNCHANGED <<dialogAlive, capRequests, capTimers, alertShown>>
    /\ UNCHANGED <<canvasVars, uiVars, loading, toast, clipboard>>

\* onOpenChange(false) of the dialog (Escape, overlay or close button)
CloseDialog ==
    /\ dialogAlive
    /\ cameraOpen
    /\ DialogCommit(FALSE, cameraDirection, permissionStatus, stream, tracks,
                    requests)
    /\ UNCHANGED <<dialogAlive, queries, capRequests, capTimers, alertShown>>
    /\ UNCHANGED <<canvasVars, uiVars, loading, toast, clipboard>>

\* checkCameraPermission after its await: the query reports st, or fails
\* and the handler falls back to "prompt"
QueryResolves(st) ==
    /\ queries > 0
    /\ queries' = queries - 1
    /\ IF dialogAlive
       THEN DialogCommit(cameraOpen, cameraDirection, st, stream, tracks,
                         requests)
       ELSE UNCHANGED <<cameraOpen, cameraDirection, permissionStatus, stream,
                        tracks, effectStream, requests>>
    /\ UNCHANGED <<dialogAlive, capRequests, capTimers, alertShown>>
    /\ UNCHANGED <<canvasVars, uiVars, loading, toast, clipboard>>

\* "Allow Camera Access": requestCameraPermission up to the await inside
\* startCamera.  supported: navigator.mediaDevices exists; without it the
\* call of getUserMedia throws inside startCamera and the catch of
\* requestCameraPermission sets "denied"
requestCameraPermission(supported) ==
    /\ dialogAlive
    /\ cameraOpen
    /\ permissionStatus \in {"prompt", "unknown"}
    /\ IF supported
       THEN /\ CanRequest
            /\ DialogCommit(cameraOpen, cameraDirection, permissionStatus,
                            NoStream, StopTracks(tracks, stream),
                            [requests EXCEPT !.permission = @ + 1])
       ELSE DialogCommit(cameraOpen, cameraDirection, "denied",
                         NoStream, StopTracks(tracks, stream), requests)
    /\ UNCHANGED <<dialogAlive, queries, capRequests, capTimers, alertShown>>
    /\ UNCHANGED <<canvasVars, uiVars, loading, toast, clipboard>>

\* getUserMedia of startCamera resolves: setStream(mediaStream) and, when
\* called from requestCameraPermission, setPermissionStatus("granted")
GetUserMediaResolves(caller) ==
    /\ requests[caller] > 0
    /\ LET s == NewStream
           tr == [tracks EXCEPT ![s] = "live"]
           req == [requests EXCEPT ![caller] = @ - 1]
       IN  IF dialogAlive
           THEN DialogCommit(cameraOpen, cameraDirection,
                             IF caller = "permission" THEN "granted"
                             ELSE permissionStatus,
                             s, tr, req)
           ELSE /\ tracks' = tr
                /\ requests' = req
                /\ UNCHANGED <<cameraOpen, cameraDirection, permissionStatus,
                               stream, effectStream>>
    /\ UNCHANGED <<dialogAlive, queries, capRequests, capTimers, alertShown>>
    /\ UNCHANGED <<canvasVars, uiVars, loading, toast, clipboard>>

\* getUserMedia of startCamera rejects: requestCameraPermission sets
\* "denied"; the start-camera effect leaves the rejection unhandled
GetUserMediaRejects(caller) ==
    /\ requests[caller] > 0
    /\ LET req == [requests EXCEPT ![caller] = @ - 1]
       IN  IF dialogAlive /\ caller = "permission"
           THEN DialogCommit(cameraOpen, cameraDirection, "denied", stream,
                             tracks, req)
           ELSE /\ requests' = req
                /\ UNCHANGED <<cameraOpen, cameraDirection, permissionStatus,
                               stream, effectStream, tracks>>
    /\ UNCHANGED <<dialogAlive, queries, capRequests, capTimers, alertShown>>
    /\ UNCHANGED <<canvasVars, uiVars, loading, toast, clipboard>>

\* "Switch Camera"
toggleCamera ==
    /\ dialogAlive
    /\ cameraOpen
    /\ permissionStatus = "granted"
    /\ DialogCommit(cameraOpen,
                    IF cameraDirection = "environment" THEN "user"
                    ELSE "environment",
                    permissionStatus, stream, tracks, requests)
    /\ UNCHANGED <<dialogAlive, queries, capRequests, capTimers, alertShown>>
    /\ UNCHANGED <<canvasVars, uiVars, loading, toast, clipboard>>

\* the frames the video element can hold
Frames == IF stream = NoStream THEN {NoFrame} ELSE Images \cup {NoFrame}

\* applyImageToCanvas with the data URL of a frame: an empty frame gives an
\* image that never loads
FrameLoading(frame) == IF frame = NoFrame THEN loading ELSE ImagesLoading(frame)

\* "Capture": ok = the temporary canvas gave a 2D context
handleCapture(ok, frame) ==
    /\ dialogAlive
    /\ cameraOpen
    /\ permissionStatus = "granted"
    /\ frame \in Frames
    /\ IF ok
       THEN /\ loading' = FrameLoading(frame)
            /\ DialogCommit(FALSE, cameraDirection, permissionStatus, stream,
                            tracks, requests)
       ELSE UNCHANGED <<loading, cameraOpen, cameraDirection,
                        permissionStatus, stream, effectStream, tracks,
                        requests>>
    /\ UNCHANGED <<dialogAlive, queries, capRequests, capTimers, alertShown>>
    /\ UNCHANGED <<canvasVars, uiVars, toast, clipboard>>

\* the component tree is unmounted: the cleanup of the last [open] effect
\* runs with the stream of the render that created it
Teardown ==
    /\ mounted /\ dialogAlive
    /\ dialogAlive' = FALSE
    /\ tracks' = StopTracks(tracks, effectStream)
    /\ UNCHANGED <<cameraOpen, stream, permissionStatus, cameraDirection,
                   effectStream, queries, requests, capRequests, capTimers,
                   alertShown>>
    /\ UNCHANGED <<canvasVars, uiVars, loading, toast, clipboard>>

----------------------------------------------------------------------------
(* captureImage of DrawingApp, save and copy *)

\* captureImage up to its await; supported: navigator.mediaDevices and
\* getUserMedia exist
captureImage(supported) ==
    /\ mounted /\ dialogAlive
    /\ IF supported
       THEN /\ CanRequest
            /\ capRequests' = capRequests + 1
            /\ UNCHANGED alertShown
       ELSE /\ alertShown' = TRUE
            /\ UNCHANGED capRequests
    /\ UNCHANGED <<cameraOpen, dialogAlive, stream, permissionStatus,
                   cameraDirection, effectStream, tracks, queries, requests,
                   capTimers>>
    /\ UNCHANGED <<canvasVars, uiVars, loading, toast, clipboard>>

\* getUserMedia of captureImage resolves: the video plays and the timer of
\* one second is started
CaptureResolves ==
    /\ capRequests > 0
    /\ capRequests' = capRequests - 1
    /\ tracks' = [tracks EXCEPT ![NewStream] = "live"]
    /\ capTimers' = capTimers \cup {NewStream}
    /\ UNCHANGED <<cameraOpen, dialogAlive, stream, permissionStatus,
                   cameraDirection, effectStream, queries, requests,
                   alertShown>>
    /\ UNCHANGED <<canvasVars, uiVars, loading, toast, clipboard>>

\* getUserMedia of captureImage rejects: nothing awaits the rejection
CaptureRejects ==
    /\ capRequests > 0
    /\ capRequests' = capRequests - 1
    /\ UNCHANGED <<cameraOpen, dialogAlive, stream, permissionStatus,
                   cameraDirection, effectStream, tracks, queries, requests,
                   capTimers, alertShown>>
    /\ UNCHANGED <<canvasVars, uiVars, loading, toast, clipboard>>

\* the timer callback of captureImage for stream s; ok = the temporary
\* canvas gave a 2D context
CaptureTimer(s, ok, frame) ==
    /\ s \in capTimers
    /\ capTimers' = capTimers \ {s}
    /\ IF ok
       THEN /\ tracks' = StopTracks(tracks, s)
            /\ toast' = "Picture taken."
            /\ loading' = IF frame = NoFrame \/ ~dialogAlive THEN loading
                          ELSE ImagesLoading(frame)
       ELSE UNCHANGED <<tracks, toast, loading>>
    /\ UNCHANGED <<cameraOpen, dialogAlive, stream, permissionStatus,
                   cameraDirection, effectStream, queries, requests,
                   capRequests, alertShown>>
    /\ UNCHANGED <<canvasVars, uiVars, clipboard>>

\* saveImage; the download itself is not observed by the handler
saveImage ==
    /\ mounted /\ dialogAlive
    /\ toast' = "Image saved."
    /\ UNCHANGED <<canvasVars, uiVars, loading, camVars>>

\* variant: the success notice waits for the clipboard write
CopyToast_awaited(blobOk, writeOk) ==
    IF blobOk /\ writeOk THEN "Canvas copied to clipboard." ELSE toast

\* the notice after copyImage: blobOk = toBlob produced a blob, writeOk = the
\* promise of navigator.clipboard.write fulfils (it is not awaited)
CopyToast(blobOk, writeOk) ==
    IF blobOk THEN "Canvas copied to clipboard." ELSE toast

copyImage(blobOk, writeOk) ==
    /\ mounted /\ dialogAlive
    /\ toast' = CopyToast(blobOk, writeOk)
    /\ clipboard' = IF blobOk /\ writeOk THEN "image/png" ELSE clipboard
    /\ UNCHANGED <<cameraOpen, dialogAlive, stream, permissionStatus,
                   cameraDirection, effectStream, tracks, queries, requests,
                   capRequests, capTimers, alertShown>>
    /\ UNCHANGED <<canvasVars, uiVars, loading>>

----------------------------------------------------------------------------
(* The controls of UserInterface *)

\* the containers of the controls: the UI toggle, the file operations card,
\* the tools card, the trigger of the settings drawer, the configuration
\* panel (wide screens)
Controls == {"toggle", "file", "tools", "settings", "panel"}

\* variant: the class list of a container does not depend on isDrawing
Interactive_whileDrawing(control) == control = "toggle" \/ ~isUiHidden

\* a container takes pointer events and is visible: every container gets
\* "pointer-events-none invisible opacity-0" while isDrawing, and every
\* container but the one of the UI toggle gets "invisible opacity-0" while
\* isUiHidden
Interactive(control) == ~isDrawing /\ (control = "toggle" \/ ~isUiHidden)

\* the drawer is modal: while it is open its overlay covers the canvas and
\* the toolbar
Uncovered == ~drawerOpen

toggleUiVisibility ==
    /\ mounted
    /\ isUiHidden' = ~isUiHidden
    /\ UNCHANGED <<canvasVars, loading, toast, camVars, drawerOpen>>

\* the eye button
ToggleButton == Uncovered /\ Interactive("toggle") /\ toggleUiVisibility

\* the pencil and eraser buttons
ToolButton(t) == Uncovered /\ Interactive("tools") /\ updateCanvasTool(t)

\* save, copy, clear and the capture menu
FileCard ==
    /\ Uncovered /\ Interactive("file")
    /\ \/ saveImage
       \/ \E blobOk, writeOk \in BOOLEAN : copyImage(blobOk, writeOk)
       \/ clearCanvas
       \/ \E supported \in BOOLEAN : captureImage(supported)

\* the three pickers of ConfigurationPanel
ConfigurationPanel ==
    \/ \E color \in Colors : updateCanvasStrokeColor(color)
    \/ \E color \in Colors : updateCanvasBg(color)
    \/ \E width \in Widths : updateCanvasStrokeWidth(width)

\* the configuration panel in its card (wide screens)
PanelCard == Uncovered /\ Interactive("panel") /\ ConfigurationPanel

\* the trigger of the settings drawer (small screens)
DrawerTrigger ==
    /\ mounted
    /\ Uncovered /\ Interactive("settings")
    /\ drawerOpen' = TRUE
    /\ UNCHANGED <<canvasVars, loading, toast, camVars, isUiHidden>>

\* the close button of the drawer, or a press on its overlay
DrawerClose ==
    /\ drawerOpen
    /\ drawerOpen' = FALSE
    /\ UNCHANGED <<canvasVars, loading, toast, camVars, isUiHidden>>

\* the configuration panel in the open drawer
DrawerPanel == drawerOpen /\ ConfigurationPanel

\* pointer events that reach the canvas
CanvasPointer ==
    /\ Uncovered
    /\ \/ \E p \in Positions : startDrawing(p)
       \/ \E p \in Positions : draw(p)
       \/ stopDrawing

----------------------------------------------------------------------------

Next ==
    \/ \E ok \in BOOLEAN : Mount(ok)
    \/ \E s \in Sizes : ContainerResize(s)
    \/ handleResize
    \/ \E color \in Colors : updateCanvasBg(color)
    \/ \E color \in Colors : updateCanvasStrokeColor(color)
    \/ \E width \in Widths : updateCanvasStrokeWidth(width)
    \/ \E t \in Tools : updateCanvasTool(t)
    \/ \E p \in Positions : startDrawing(p)
    \/ \E p \in Positions : draw(p)
    \/ stopDrawing
    \/ clearCanvas
    \/ \E img \in Images : applyImageToCanvas(img)
    \/ \E img \in Images : ImageLoad(img)

Spec == Init /\ [][Next]_vars

\* the pointer events of the canvas, delivered as mouse and touch events
PointerNext ==
    \/ \E ok \in BOOLEAN : Mount(ok)
    \/ handleResize
    \/ \E e \in MouseEvents, rect \in Rects : onMouseDown(e, rect)
    \/ \E e \in TouchEvents, rect \in Rects : onTouchStart(e, rect)
    \/ \E e \in MouseEvents, rect \in Rects : onMouseMove(e, rect)
    \/ \E e \in TouchEvents, rect \in Rects : onTouchMove(e, rect)
    \/ stopDrawing

PointerSpec == Init /\ [][PointerNext]_vars

\* the capture dialog, with the mount and the image loads it leads to
DialogNext ==
    \/ \E ok \in BOOLEAN : Mount(ok)
    \/ \E img \in Images : ImageLoad(img)
    \/ OpenDialog
    \/ CloseDialog
    \/ \E st \in PermissionStates : QueryResolves(st)
    \/ \E supported \in BOOLEAN : requestCameraPermission(supported)
    \/ \E caller \in {"permission", "effect"} : GetUserMediaResolves(caller)
    \/ \E caller \in {"permission", "effect"} : GetUserMediaRejects(caller)
    \/ toggleCamera
    \/ \E ok \in BOOLEAN, frame \in Images \cup {NoFrame} :
            handleCapture(ok, frame)
    \/ Teardown

DialogSpec == Init /\ [][DialogNext]_vars

\* the toolbar's file and camera operations, with the mount and the image
\* loads they lead to
ToolbarNext ==
    \/ \E ok \in BOOLEAN : Mount(ok)
    \/ \E img \in Images : ImageLoad(img)
    \/ clearCanvas
    \/ saveImage
    \/ \E blobOk, writeOk \in BOOLEAN : copyImage(blobOk, writeOk)
    \/ \E supported \in BOOLEAN : captureImage(supported)
    \/ CaptureResolves
    \/ CaptureRejects
    \/ \E s \in StreamIds, ok \in BOOLEAN, frame \in Images \cup {NoFrame} :
            CaptureTimer(s, ok, frame)

ToolbarSpec == Init /\ [][ToolbarNext]_vars

\* the worked scenarios: the drawing surface in a container of the scenario
\* sizes, before the mount effect
ScenarioInit ==
    /\ mounted = FALSE
    /\ client \in ScenarioSizes
    /\ canvas = NoCanvas
    /\ ctx = NoCtx
    /\ bgColor = DEFAULT_LIGHT_MODE_BG_COLOR
    /\ strokeColor = DEFAULT_LIGHT_MODE_STROKE_COLOR
    /\ tool = DEFAULT_TOOL
    /\ isDrawing = FALSE
    /\ strokeWidth = DEFAULT_STROKE_WIDTH
    /\ refs = RefsOf(DEFAULT_TOOL, DEFAULT_LIGHT_MODE_STROKE_COLOR,
                     DEFAULT_STROKE_WIDTH, DEFAULT_LIGHT_MODE_BG_COLOR)
    /\ canvasStateRef = NoImageData
    /\ resizePending = FALSE
    /\ loading = {}
    /\ toast = "none"
    /\ resizeBase = NoBase
    /\ nEvents = 0
    /\ cameraOpen = FALSE
    /\ dialogAlive = TRUE
    /\ stream = NoStream
    /\ permissionStatus = "unknown"
    /\ cameraDirection = "environment"
    /\ effectStream = NoStream
    /\ tracks = [i \in StreamIds |-> "none"]
    /\ queries = 0
    /\ requests = [permission |-> 0, effect |-> 0]
    /\ capRequests = 0
    /\ capTimers = {}
    /\ alertShown = FALSE
    /\ clipboard = "empty"
    /\ isUiHidden = FALSE
    /\ drawerOpen = FALSE

\* the handlers the scenarios exercise, on the scenario inputs
ScenarioNext ==
    \/ \E ok \in BOOLEAN : Mount(ok)
    \/ \E s \in ScenarioSizes : ContainerResize(s)
    \/ handleResize
    \/ \E p \in ScenarioPositions : startDrawing(p)
    \/ \E p \in ScenarioPositions : draw(p)
    \/ stopDrawing
    \/ \E img \in ScenarioImages : applyImageToCanvas(img)
    \/ \E img \in ScenarioImages : ImageLoad(img)

ScenarioSpec == ScenarioInit /\ [][ScenarioNext]_vars

\* the drawing surface driven through the controls of UserInterface
UiNext ==
    \/ \E ok \in BOOLEAN : Mount(ok)
    \/ ToggleButton
    \/ \E t \in Tools : ToolButton(t)
    \/ FileCard
    \/ PanelCard
    \/ DrawerTrigger
    \/ DrawerClose
    \/ DrawerPanel
    \/ CanvasPointer

UiSpec == Init /\ [][UiNext]_vars

----------------------------------------------------------------------------
(* Properties *)

\* the effective stroke colour of the latest selections
EffectiveStroke == IF tool = "eraser" THEN bgColor ELSE strokeColor

HasCtx == ctx # NoCtx

\* C1: once the rendering context is initialised, whatever setters were
\* called and in whatever order, the context's stroke colour is the background
\* colour if the tool is eraser and the chosen stroke colour otherwise, and
\* the context's line width is the latest stroke width.
C1_ContextFollowsSelections ==
    HasCtx =>
        /\ ctx.strokeStyle = (IF tool = "eraser" THEN bgColor ELSE strokeColor)
        /\ ctx.lineWidth = strokeWidth

\* the tool, the background colour and the stroke width have all been
\* changed on an initialised context: the eraser strokes in the new background
C1_Witness ==
    /\ HasCtx
    /\ tool = "eraser"
    /\ bgColor # DEFAULT_LIGHT_MODE_BG_COLOR
    /\ strokeWidth # DEFAULT_STROKE_WIDTH
    /\ ctx.strokeStyle = bgColor

\* a step of one of the three setters that do not touch the bitmap
PureSetterStep ==
    \/ \E color \in Colors : updateCanvasStrokeColor(color)
    \/ \E width \in Widths : updateCanvasStrokeWidth(width)
    \/ \E t \in Tools : updateCanvasTool(t)

\* C2 as stated: each of the four setters leaves every pixel of the surface
\* and the surface dimensions unchanged.
C2_AllSettersKeepPixels ==
    [][(PureSetterStep \/ \E color \in Colors : updateCanvasBg(color))
            => canvas' = canvas]_vars

\* C2 as amended: setStrokeColor, setStrokeWidth and setTool leave the bitmap
\* (pixels and dimensions) unchanged; setBackgroundColor keeps the dimensions
\* but, when the context is available, fills every pixel with the new
\* background colour.
C2_SettersFrame ==
    [][/\ PureSetterStep => canvas' = canvas
       /\ \A color \in Colors : updateCanvasBg(color) =>
            /\ canvas'.w = canvas.w
            /\ canvas'.h = canvas.h
            /\ DOMAIN canvas'.px = DOMAIN canvas.px
            /\ \A p \in DOMAIN canvas.px :
                  canvas'.px[p] = (IF HasCtx THEN color ELSE canvas.px[p])]_vars

\* the stroke colour and the background colour have both been changed, and a
\* stroke in the new colour lies on the new background
C2_Witness ==
    /\ HasCtx
    /\ bgColor # DEFAULT_LIGHT_MODE_BG_COLOR
    /\ strokeColor # DEFAULT_LIGHT_MODE_STROKE_COLOR
    /\ strokeColor # bgColor
    /\ \E p \in DOMAIN canvas.px : canvas.px[p] = strokeColor
    /\ \E p \in DOMAIN canvas.px : canvas.px[p] = bgColor

\* a step of handleResize that reallocates the bitmap
ResizeStep == handleResize /\ HasCtx

\* C3 as stated: the snapshot is repainted at the offset
\* (max(0, (newW - oldW)/2), max(0, (newH - oldH)/2)): a new pixel holds the
\* old pixel that lies exactly that far to its upper left, and a new pixel
\* that no old pixel is mapped to holds the background colour.
C3_ExactHalfOffset ==
    [][ResizeStep =>
        \A p \in DOMAIN canvas'.px :
            LET src == {q \in DOMAIN canvas.px :
                            /\ 2 * p[1] = 2 * q[1] + Max(0, client.w - canvas.w)
                            /\ 2 * p[2] = 2 * q[2] + Max(0, client.h - canvas.h)}
            IN  /\ \A q \in src : canvas'.px[p] = canvas.px[q]
                /\ src = {} => canvas'.px[p] = bgColor]_vars

\* C3 as amended: the offsets are max(0, (newW - oldW)/2) and
\* max(0, (newH - oldH)/2) rounded down to whole pixels; every old pixel whose
\* target lies inside the new buffer appears there with its old colour, and
\* every other new pixel holds the current background colour.
C3_ResizeRepaint ==
    [][ResizeStep =>
        LET dx == IF client.w > canvas.w THEN (client.w - canvas.w) \div 2 ELSE 0
            dy == IF client.h > canvas.h THEN (client.h - canvas.h) \div 2 ELSE 0
        IN  /\ canvas'.w = client.w
            /\ canvas'.h = client.h
            /\ DOMAIN canvas'.px = (0..(client.w - 1)) \X (0..(client.h - 1))
            /\ \A q \in DOMAIN canvas.px :
                  <<q[1] + dx, q[2] + dy>> \in DOMAIN canvas'.px =>
                      canvas'.px[<<q[1] + dx, q[2] + dy>>] = canvas.px[q]
            /\ \A p \in DOMAIN canvas'.px :
                  <<p[1] - dx, p[2] - dy>> \notin DOMAIN canvas.px =>
                      canvas'.px[p] = bgColor]_vars

\* a resize has grown the surface by at least two pixels in one direction
\* and the drawn content sits at its shifted place
C3_Witness ==
    /\ HasCtx
    /\ canvasStateRef # NoImageData
    /\ resizeBase # NoBase
    /\ \/ canvas.w >= canvasStateRef.w + 2
       \/ canvas.h >= canvasStateRef.h + 2
    /\ \E p \in DOMAIN canvas.px : canvas.px[p] # bgColor
    /\ \E p \in DOMAIN canvas.px : canvas.px[p] = bgColor

\* C4: after a run of resizes that ends back at the size it started from, the
\* content present before the run is still there, bit-exact and at its
\* original position, within the centred window that no intermediate size
\* clipped (the centred window of the smallest size of the run).  Stated for
\* runs in which every size differs from the first by an even number of
\* pixels, so that the centred window is a whole number of pixels.
C4_RoundTripPreserves ==
    (/\ resizeBase # NoBase
     /\ resizeBase.even
     /\ canvas.w = resizeBase.w
     /\ canvas.h = resizeBase.h) =>
        \A p \in DOMAIN canvas.px :
            (/\ 2 * p[1] >= resizeBase.w - resizeBase.minW
             /\ 2 * p[1] < resizeBase.w + resizeBase.minW
             /\ 2 * p[2] >= resizeBase.h - resizeBase.minH
             /\ 2 * p[2] < resizeBase.h + resizeBase.minH) =>
                canvas.px[p] = resizeBase.px[p]

\* C5: handleResize at an unchanged size reproduces the bitmap (same
\* dimensions, identical pixels) and the same rendering configuration
\* (stroke style, fill style, line width, line cap, line join).
C5_ResizeIdempotent ==
    [][(ResizeStep /\ client.w = canvas.w /\ client.h = canvas.h) =>
        /\ canvas' = canvas
        /\ ctx'.strokeStyle = ctx.strokeStyle
        /\ ctx'.fillStyle = ctx.fillStyle
        /\ ctx'.lineWidth = ctx.lineWidth
        /\ ctx'.lineCap = ctx.lineCap
        /\ ctx'.lineJoin = ctx.lineJoin
        /\ <<tool, strokeColor, bgColor, strokeWidth>>' =
               <<tool, strokeColor, bgColor, strokeWidth>>]_vars

\* handleResize has run at an unchanged size on a surface with drawn content
\* and a non-default line width
C5_Witness ==
    /\ HasCtx
    /\ canvasStateRef # NoImageData
    /\ resizeBase # NoBase
    /\ canvasStateRef = canvas
    /\ strokeWidth # 1
    /\ \E p \in DOMAIN canvas.px : canvas.px[p] # bgColor

BufferSize == IF canvas = NoCanvas THEN NoCanvas ELSE [w |-> canvas.w, h |-> canvas.h]

PaintStep ==
    \/ \E p \in Positions : startDrawing(p)
    \/ \E p \in Positions : draw(p)

\* C7: a stroke changes pixels only to the background colour while the tool is
\* eraser and only to the chosen stroke colour while the tool is pencil.
C7_StrokePaintsEffectiveColour ==
    [][(canvas' # canvas /\ PaintStep) =>
        \A p \in DOMAIN canvas.px :
            canvas'.px[p] # canvas.px[p] =>
                canvas'.px[p] = (IF tool = "eraser" THEN bgColor
                                 ELSE strokeColor)]_vars

\* an eraser stroke is in progress over an applied image: the pixels under
\* the stroke hold the background colour, the others still hold the image
C7_Witness ==
    /\ HasCtx
    /\ isDrawing
    /\ tool = "eraser"
    /\ \E p \in DOMAIN canvas.px : canvas.px[p] = ImagePixel
    /\ \E p \in DOMAIN canvas.px :
          p \in StrokeCover(ctx) /\ canvas.px[p] = bgColor

\* C8: clear fills every pixel with the current background colour and changes
\* neither the buffer dimensions nor the tool, colours, stroke width or the
\* context's stroke colour.
C8_ClearFrame ==
    [][(clearCanvas /\ HasCtx) =>
        /\ canvas'.w = canvas.w
        /\ canvas'.h = canvas.h
        /\ DOMAIN canvas'.px = DOMAIN canvas.px
        /\ \A p \in DOMAIN canvas'.px : canvas'.px[p] = bgColor
        /\ <<tool, strokeColor, bgColor, strokeWidth>>' =
               <<tool, strokeColor, bgColor, strokeWidth>>
        /\ ctx'.strokeStyle = ctx.strokeStyle
        /\ ctx'.lineWidth = ctx.lineWidth]_vars

\* a pencil stroke in a colour other than the background was drawn and the
\* surface has been cleared since
C8_Witness ==
    /\ HasCtx
    /\ toast = "Canvas cleared."
    /\ tool = "pencil"
    /\ strokeColor # bgColor
    /\ Len(ctx.path) >= 2
    /\ \A p \in DOMAIN canvas.px : canvas.px[p] = bgColor

C10_PointerDownDot ==
    [][/\ \A p \in Positions : (HasCtx /\ startDrawing(p)) =>
            /\ ctx'.path[1] = p
            /\ ctx'.path[Len(ctx'.path)] = p
            /\ isDrawing'
            /\ \A q \in DOMAIN canvas.px :
                  canvas'.px[q] =
                      (IF (2 * q[1] + 1 - 2 * p[1]) * (2 * q[1] + 1 - 2 * p[1])
                        + (2 * q[2] + 1 - 2 * p[2]) * (2 * q[2] + 1 - 2 * p[2])
                          <= strokeWidth * strokeWidth
                       THEN EffectiveStroke ELSE canvas.px[q])
       /\ stopDrawing => (canvas' = canvas /\ (HasCtx => ~isDrawing'))]_vars

\* a tap (pointer-down, pointer-up, no move) with the thin pencil has left a
\* dot that covers part of the surface
C10_Witness ==
    /\ HasCtx
    /\ ~isDrawing
    /\ ctx.closed
    /\ Len(ctx.path) = 2
    /\ tool = "pencil"
    /\ strokeWidth = THIN_STROKE_WIDTH
    /\ strokeColor # bgColor
    /\ \E q \in DOMAIN canvas.px : canvas.px[q] = strokeColor
    /\ \E q \in DOMAIN canvas.px : canvas.px[q] = bgColor

C12_NoContextNoOp ==
    [][(mounted /\ ~HasCtx) =>
        /\ canvas' = canvas
        /\ ctx' = ctx
        /\ ~isDrawing /\ ~isDrawing'
        /\ loading' = loading
        /\ toast' = toast
        /\ canvasStateRef' = canvasStateRef]_vars

\* without a context the container has changed size and the notification
\* has been handled, a setter and two more operations have been called, and
\* the buffer is still the untouched one of the mount
C12_Witness ==
    /\ mounted
    /\ ~HasCtx
    /\ ~resizePending
    /\ BufferSize # client
    /\ nEvents >= 3
    /\ bgColor # DEFAULT_LIGHT_MODE_BG_COLOR
    /\ \A q \in DOMAIN canvas.px : canvas.px[q] = Transparent

\* the dialog holds a stream whose tracks are live
HoldsLiveStream == stream # NoStream /\ tracks[stream] = "live"

\* a step that processes the closing of the dialog
CloseStep ==
    \/ CloseDialog
    \/ \E frame \in Images \cup {NoFrame} : handleCapture(TRUE, frame)

\* C13: when the dialog is closed while it holds an open stream, the close
\* stops every track of that stream and leaves the dialog without a stream.
C13_CloseReleasesStream ==
    [][(HoldsLiveStream /\ CloseStep) =>
        /\ tracks'[stream] = "ended"
        /\ stream' = NoStream
        /\ ~cameraOpen']_vars

\* the dialog was closed while it held a stream: it is closed, holds no
\* stream, and the stream its closing render saw has ended
C13_Witness ==
    /\ dialogAlive
    /\ ~cameraOpen
    /\ stream = NoStream
    /\ effectStream # NoStream
    /\ tracks[effectStream] = "ended"

\* no asynchronous call, timer or image load of the capture flows is pending
Quiescent ==
    /\ queries = 0
    /\ requests.permission = 0 /\ requests.effect = 0
    /\ capRequests = 0
    /\ capTimers = {}
    /\ loading = {}

\* C14 as stated: in no quiescent state is the dialog closed or unmounted
\* while a track of a stream that was opened is still live.
C14_NoLiveTrackWhenClosed ==
    (Quiescent /\ (~cameraOpen \/ ~dialogAlive)) =>
        \A i \in StreamIds : tracks[i] # "live"

\* C15 as stated: from the stream request of captureImage to its resolution
\* the surface is not modified; a capture that succeeds hands exactly one
\* image to applyImageToCanvas; a request that fails or is denied shows a
\* notice (a toast or an alert) and leaves the surface as it is.
C15_CaptureFlow ==
    [][/\ (captureImage(TRUE) \/ CaptureResolves \/ CaptureRejects) =>
            (canvas' = canvas /\ loading' = loading)
       /\ CaptureRejects => (toast' # toast \/ alertShown' # alertShown)
       /\ \A s \in StreamIds, img \in Images :
            (HasCtx /\ CaptureTimer(s, TRUE, img)) =>
                (canvas' = canvas /\ loading' = loading \cup {img})]_vars

\* the viewport position of a touch point t minus the origin of rect
Local(t, rect) == <<t.clientX - rect.left, t.clientY - rect.top>>

\* C16: on a mounted canvas a mouse event and a touch event at the same
\* viewport position resolve to the same coordinates, the viewport position
\* minus the origin of the canvas box, whatever further touch points the
\* touch event carries.
C16_SameLocalCoordinates ==
    canvas # NoCanvas =>
        \A rect \in Rects, m \in MouseEvents, t \in TouchEvents :
            /\ getCoordinates(m, rect) = Local(m, rect)
            /\ getCoordinates(t, rect) = Local(t.touches[1], rect)
            /\ t.touches[1] = m =>
                    getCoordinates(t, rect) = getCoordinates(m, rect)

\* a stroke was started and extended at positions left of and above the
\* canvas box, which only the subtraction of a non-zero origin yields
C16_Witness ==
    /\ HasCtx
    /\ isDrawing
    /\ Len(ctx.path) = 3
    /\ ctx.path[1] = <<-1, -1>>
    /\ ctx.path[3] = <<0, -1>>

\* the success notices of the toolbar operations
SuccessNotices ==
    {"Image saved.", "Canvas copied to clipboard.", "Canvas cleared.",
     "Picture taken."}

\* C17 as stated: save, copy, clear and capture end in a notice that reports
\* their outcome: a success notice when the operation succeeded, and for an
\* operation that failed (no blob, a rejected clipboard write, a rejected
\* stream request) a new notice that is not a success notice.  (Copies are
\* taken from an empty clipboard, where the state shows whether the write
\* took place.)
C17_NoticeReportsOutcome ==
    [][/\ saveImage => toast' = "Image saved."
       /\ (clearCanvas /\ HasCtx) => toast' = "Canvas cleared."
       /\ (clipboard = "empty" /\ copyImage(TRUE, TRUE)) =>
            toast' = "Canvas copied to clipboard."
       /\ \A blobOk, writeOk \in BOOLEAN :
            (/\ clipboard = "empty" /\ ~(blobOk /\ writeOk)
             /\ copyImage(blobOk, writeOk)) =>
                (toast' # toast /\ toast' \notin SuccessNotices)
       /\ CaptureRejects =>
            (toast' # toast /\ toast' \notin SuccessNotices)]_vars

\* C18 as stated: a resize neither scales nor moves the content off centre:
\* where the size changes by whole pixels on both sides (an even difference),
\* a new pixel holds the old pixel that lies half the size difference away,
\* towards the old origin when the dimension grows and away from it when the
\* dimension shrinks (the central window).
C18_CentralWindow ==
    [][(/\ ResizeStep
        /\ (client.w - canvas.w) % 2 = 0
        /\ (client.h - canvas.h) % 2 = 0) =>
        \A p \in DOMAIN canvas'.px :
            LET q == <<p[1] - (client.w - canvas.w) \div 2,
                       p[2] - (client.h - canvas.h) \div 2>>
            IN  q \in DOMAIN canvas.px => canvas'.px[p] = canvas.px[q]]_vars

\* C19: after every resize, whatever setters were called before it, the
\* context's line cap and line join are round, its stroke colour is the
\* effective stroke colour of the latest selections, its line width the
\* latest stroke width, and the buffer is filled with the latest background
\* colour wherever the old content was not repainted.
C19_ResizeUsesLatestConfiguration ==
    [][ResizeStep =>
        /\ ctx'.lineCap = "round"
        /\ ctx'.lineJoin = "round"
        /\ ctx'.strokeStyle = (IF tool' = "eraser" THEN bgColor'
                               ELSE strokeColor')
        /\ ctx'.lineWidth = strokeWidth'
        /\ ctx'.fillStyle = bgColor'
        /\ \A p \in DOMAIN canvas'.px :
              <<p[1] - ResizeOffset(client.w, canvas.w),
                p[2] - ResizeOffset(client.h, canvas.h)>>
                  \notin DOMAIN canvas.px => canvas'.px[p] = bgColor']_vars

\* after the eraser was chosen and the background was changed, the buffer
\* has grown in a resize: the context has just been reset and
\* restored, and a pixel outside the old content holds the new background
C19_Witness ==
    /\ HasCtx
    /\ ~resizePending
    /\ tool = "eraser"
    /\ bgColor # DEFAULT_LIGHT_MODE_BG_COLOR
    /\ ctx.path = <<>>
    /\ ctx.lineCap = "round"
    /\ canvasStateRef # NoImageData
    /\ canvasStateRef.h < canvas.h
    /\ canvas.px[<<0, canvas.h - 1>>] = bgColor

\* the step of the mount effect ("initialize")
InitializeStep == ~mounted /\ mounted'

\* the surface as initialize is required to leave it
Initialized ==
    /\ BufferSize' = client'
    /\ \A p \in DOMAIN canvas'.px : canvas'.px[p] = bgColor'
    /\ ctx' # NoCtx
    /\ ctx'.lineCap = "round"
    /\ ctx'.lineJoin = "round"
    /\ ctx'.strokeStyle = (IF tool' = "eraser" THEN bgColor'
                           ELSE strokeColor')
    /\ ctx'.lineWidth = strokeWidth'

\* initialize runs once, and nothing touches the buffer before it
InitializeOnceAndFirst ==
    /\ mounted => mounted'
    /\ ~mounted => (canvas = NoCanvas /\ ctx = NoCtx)
    /\ (canvas' # canvas \/ ctx' # ctx) => mounted'

C21_MoveExtendsPath ==
    [][\A p \in Positions : draw(p) =>
        IF isDrawing /\ HasCtx
        THEN /\ Len(ctx.path) > 0
             /\ ctx'.path = Append(ctx.path, p)
             /\ \A q \in DOMAIN canvas.px :
                   InSegment(q, ctx.path[Len(ctx.path)], p, ctx.lineWidth)
                       => canvas'.px[q] = ctx.strokeStyle
             /\ isDrawing'
        ELSE canvas' = canvas]_vars

\* C22: the stroke width is read when a segment is rendered: a pointer-move
\* of a stroke session paints the path at the stroke width selected last,
\* also when the width was changed after the pointer-down.
C22_WidthAtRenderTime ==
    [][\A p \in Positions : (isDrawing /\ HasCtx /\ draw(p)) =>
        canvas' = Stroke(canvas,
                         [LineTo(ctx, p) EXCEPT !.lineWidth = strokeWidth])]_vars

\* the thin width is selected and a pointer-move of the session has been
\* rendered thin: the path has a segment, and a pixel that the path would
\* cover at the default width is still background
C22_Witness ==
    /\ isDrawing
    /\ HasCtx
    /\ Len(ctx.path) = 3
    /\ ctx.path[2] # ctx.path[3]
    /\ strokeWidth = THIN_STROKE_WIDTH
    /\ strokeColor # bgColor
    /\ \E q \in DOMAIN canvas.px : canvas.px[q] = strokeColor
    /\ \E q \in DOMAIN canvas.px :
          /\ canvas.px[q] = bgColor
          /\ q \in StrokeCover([ctx EXCEPT !.lineWidth = DEFAULT_STROKE_WIDTH])

\* the scenario's stroke as the context holds it after the pointer-move
ScenarioStroke ==
    [DefaultContext EXCEPT
        !.path = <<<<1, 1>>, <<1, 1>>, <<2, 1>>>>,
        !.lineWidth = DEFAULT_STROKE_WIDTH,
        !.lineCap = "round",
        !.lineJoin = "round"]

\* C23: when the 800x600 surface is resized to 1000x600 the content moves by
\* max(0, (1000 - 800) / 2) = 100 pixels to the right and by 0 pixels down,
\* and the columns exposed on both sides hold the background colour (the
\* model's surface is 8x6 and grows to 10x6, the shift is one unit).
C23_ScenarioStrokeShifted ==
    [][/\ ResizeOffset(1000, 800) = 100
       /\ ResizeOffset(600, 600) = 0
       /\ (/\ ResizeStep
           /\ BufferSize = [w |-> 8, h |-> 6]
           /\ client = [w |-> 10, h |-> 6]) =>
             /\ BufferSize' = [w |-> 10, h |-> 6]
             /\ \A p \in DOMAIN canvas'.px :
                   canvas'.px[p] = IF 1 <= p[1] /\ p[1] <= 8
                                   THEN canvas.px[<<p[1] - 1, p[2]>>]
                                   ELSE bgColor]_vars

\* the black width-5 stroke from (1,1) to (2,1) was drawn on the white 8x6
\* surface, and the resize to 10x6 has been handled: the stroke lies one
\* column further right and the first and the last column are white
C23_Witness ==
    /\ HasCtx
    /\ ~resizePending
    /\ bgColor = "#ffffff"
    /\ BufferSize = [w |-> 10, h |-> 6]
    /\ canvasStateRef # NoImageData
    /\ canvasStateRef.w = 8
    /\ \A q \in DOMAIN canvasStateRef.px :
          canvasStateRef.px[q] = IF q \in StrokeCover(ScenarioStroke)
                                 THEN "#000000" ELSE "#ffffff"
    /\ \A q \in DOMAIN canvas.px :
          canvas.px[q] = IF /\ 1 <= q[1] /\ q[1] <= 8
                            /\ <<q[1] - 1, q[2]>> \in StrokeCover(ScenarioStroke)
                         THEN "#000000" ELSE "#ffffff"
    /\ canvas.px[<<2, 1>>] = "#000000"

\* a step in which a 4:3 image is drawn on the 16:9 surface
ScenarioImageStep(img) ==
    /\ ImageLoad(img)
    /\ BufferSize = [w |-> 16, h |-> 9]
    /\ img.w * 3 = img.h * 4

\* C24 as stated: a 4:3 image applied to a 16:9 surface is scaled until its
\* height equals the surface height and is cropped by equal amounts on the
\* left and on the right, leaving no gap.
C24_ScenarioHeightFit ==
    [][\A img \in ScenarioImages : ScenarioImageStep(img) =>
        LET r == DestRect(16, 9, img.w, img.h)
        IN  /\ r.h = 2 * r.den * 9
            /\ r.x <= 0
            /\ 0 - r.x = r.x + r.w - 2 * r.den * 16
            /\ \A p \in DOMAIN canvas'.px : canvas'.px[p] = ImagePixel]_vars

\* C24 as amended: a 4:3 image applied to a 16:9 surface is scaled until its
\* width equals the surface width and is cropped by equal amounts at the top
\* and at the bottom, leaving no gap.
C24_ScenarioWidthFit ==
    [][\A img \in ScenarioImages : ScenarioImageStep(img) =>
        LET r == DestRect(16, 9, img.w, img.h)
        IN  /\ r.w = 2 * r.den * 16
            /\ r.x = 0
            /\ r.y < 0
            /\ 0 - r.y = r.y + r.h - 2 * r.den * 9
            /\ \A p \in DOMAIN canvas'.px : canvas'.px[p] = ImagePixel]_vars

\* the 4:3 image has been drawn on the 16:9 surface
C24_Witness ==
    /\ HasCtx
    /\ BufferSize = [w |-> 16, h |-> 9]
    /\ loading = {}
    /\ \A p \in DOMAIN canvas.px : canvas.px[p] = ImagePixel

\* C25: once the permission status is 'denied' and no stream request of the
\* permission button is in flight, it stays 'denied' for as long as the
\* dialog stays open, also when the permission query issued at opening
\* completes after the refused stream request, and the dialog issues no
\* stream request.
C25_DeniedPersists ==
    [][(/\ dialogAlive /\ cameraOpen
        /\ permissionStatus = "denied"
        /\ requests.permission = 0
        /\ cameraOpen' /\ dialogAlive') =>
            /\ permissionStatus' = "denied"
            /\ requests'.permission <= requests.permission
            /\ requests'.effect <= requests.effect]_vars

\* C26: a capture attempt without the camera API shows the blocking 'not
\* supported' notice and is aborted: no stream request is issued, no stream
\* is held, and the drawing surface is unchanged.
C26_UnsupportedAborts ==
    [][(requestCameraPermission(FALSE) \/ captureImage(FALSE)) =>
        /\ alertShown'
        /\ requests' = requests
        /\ capRequests' = capRequests
        /\ stream' = NoStream
        /\ canvas' = canvas
        /\ loading' = loading]_vars

\* a press on one of the controls
ControlEvent ==
    \/ ToggleButton
    \/ \E t \in Tools : ToolButton(t)
    \/ FileCard
    \/ PanelCard
    \/ DrawerTrigger
    \/ DrawerPanel

\* C27: while a stroke session is active no control is interactive, so that
\* no tool, colour, width, clear, save, copy, capture or UI-toggle action
\* can occur; when no session is active the UI toggle is interactive, and so
\* are the other controls unless the UI is hidden with the toggle.
C27_ControlsHiddenWhileDrawing ==
    /\ isDrawing =>
          /\ \A control \in Controls : ~Interactive(control)
          /\ ~ENABLED ControlEvent
    /\ ~isDrawing =>
          /\ Interactive("toggle")
          /\ \A control \in Controls : Interactive(control) \/ isUiHidden

\* a stroke session has ended while the UI is hidden with the toggle: the
\* toggle is interactive again, the tools card is not
C27_Witness ==
    /\ HasCtx
    /\ ~isDrawing
    /\ ctx.closed
    /\ Len(ctx.path) >= 2
    /\ isUiHidden
    /\ Interactive("toggle")
    /\ ~Interactive("tools")

\* the streams with a track that has not been stopped
LiveStreams == {i \in StreamIds : tracks[i] = "live"}

\* C28: at most one acquired stream has unstopped tracks, and once no stream
\* request of the dialog is in flight the only live stream is the one the
\* dialog holds.
C28_AtMostOneLiveStream ==
    /\ Cardinality(LiveStreams) <= 1
    /\ (requests.permission = 0 /\ requests.effect = 0 /\ dialogAlive) =>
          LiveStreams \subseteq {stream}

\* C29: a resize changes the buffer and re-applies the context settings, and
\* nothing else of the configuration: tool, stroke colour, background colour,
\* stroke width and the drawing flag are unchanged, so a resize during a
\* stroke session does not end the session.
C29_ResizeFrame ==
    [][handleResize =>
        /\ UNCHANGED <<tool, strokeColor, bgColor, strokeWidth, isDrawing,
                       refs, mounted, client, loading, toast>>
        /\ HasCtx =>
              /\ ctx'.strokeStyle = ctx.strokeStyle
              /\ ctx'.lineWidth = ctx.lineWidth
              /\ ctx'.lineCap = ctx.lineCap
              /\ ctx'.lineJoin = ctx.lineJoin]_vars

\* a resize to another size has been handled during a stroke session: the
\* buffer was reallocated, the stroke is still on it and the session is
\* still drawing
C29_Witness ==
    /\ HasCtx
    /\ isDrawing
    /\ ~resizePending
    /\ ctx.path = <<>>
    /\ canvasStateRef # NoImageData
    /\ <<canvasStateRef.w, canvasStateRef.h>> # <<canvas.w, canvas.h>>
    /\ strokeColor # bgColor
    /\ \E p \in DOMAIN canvas.px : canvas.px[p] = strokeColor

\* C30: applyImage does not touch the buffer when it is called; when the
\* image has loaded it is drawn with the cover-fit rectangle of the buffer
\* dimensions of that moment, so that it covers the whole buffer, also when
\* a resize was handled between the call and the load.
C30_ImageFitsBufferAtLoad ==
    [][/\ \A img \in Images : applyImageToCanvas(img) =>
            canvas' = canvas /\ ctx' = ctx
       /\ \A img \in Images : ImageLoad(img) =>
            /\ BufferSize' = BufferSize
            /\ \A p \in DOMAIN canvas'.px : canvas'.px[p] = ImagePixel]_vars

\* an image has been drawn on a buffer that a resize had reallocated to
\* another size: it covers the whole buffer, and the snapshot taken by the
\* resize holds no pixel of the image
C30_Witness ==
    /\ HasCtx
    /\ loading = {}
    /\ ~resizePending
    /\ canvasStateRef # NoImageData
    /\ <<canvasStateRef.w, canvasStateRef.h>> # <<canvas.w, canvas.h>>
    /\ \A p \in DOMAIN canvasStateRef.px : canvasStateRef.px[p] # ImagePixel
    /\ \A p \in DOMAIN canvas.px : canvas.px[p] = ImagePixel

====
